---------------------------- MODULE Spec2Model ----------------------------
(***************************************************************************)
(* A model of code_clean.py: a patcher that reads a list of static         *)
(* analysis findings and rewrites the offending file.  File contents,      *)
(* messages and lines are sequences of one-character strings, so that the  *)
(* string operations of the program (find, rfind, replace, slicing,        *)
(* readlines) are computed as Python computes them.                        *)
(*                                                                         *)
(* Three specifications share the variables:                               *)
(*   Spec        main(): the run loop over the findings list as coded      *)
(*   SpecDrivers the ledger-driven drivers solve3776, solve3776_2 and      *)
(*               solve1186 called one after another on one Go file         *)
(*   SpecJava    solve112 called on a Java file                            *)
(***************************************************************************)
EXTENDS Integers, Sequences, FiniteSets, TLC

VARIABLES
    codes,       \* the text of the target file on disk
    orig,        \* the text of the file when the run started (history)
    lines_dict,  \* the per-file line-offset ledger: file key -> delta
    problems,    \* the findings list read by main()
    idx,         \* number of findings main() has processed
    status,      \* "running", "done" or "crashed" (uncaught exception)
    calls,       \* log of the driver invocations made by main(): <<i, driver>>
    declared,    \* the literals of the declarations solve1192 generated, in order (history)
    last         \* what the last driver call saw and did (history)

vars == <<codes, orig, lines_dict, problems, idx, status, calls, declared, last>>

---------------------------------------------------------------------------
(* Bounds of the model.                                                    *)

\* main(): the findings list holds at most MaxProblems findings
MaxProblems == 3

\* the Go file handed to the ledger-driven drivers is built from at most
\* MaxChunks body chunks
MaxChunks == 2

\* the drivers are handed further findings only while the file has at most
\* MaxLines lines
MaxLines == 6

\* the Java file handed to solve112 is built from at most MaxJavaParts parts
MaxJavaParts == 3

---------------------------------------------------------------------------
(* Python's string and list operations on sequences of characters.         *)

Min(a, b) == IF a < b THEN a ELSE b
Max(a, b) == IF a > b THEN a ELSE b

\* s[i] of a string or list, 0-based, a negative i counting from the end
At(s, i) == IF i < 0 THEN s[Len(s) + i + 1] ELSE s[i + 1]

\* whether s[i] raises IndexError
OutOfRange(s, i) == i >= Len(s) \/ i < -Len(s)

\* s[a:b]
Slice(s, a, b) ==
    LET n  == Len(s)
        lo == IF a < 0 THEN Max(n + a, 0) ELSE Min(a, n)
        hi == IF b < 0 THEN Max(n + b, 0) ELSE Min(b, n)
    IN  IF lo >= hi THEN <<>> ELSE SubSeq(s, lo + 1, hi)

\* whether sub occurs in s at 0-based position i
OccursAt(s, sub, i) ==
    /\ i >= 0
    /\ i + Len(sub) <= Len(s)
    /\ \A k \in 1..Len(sub) : s[i + k] = sub[k]

\* the lowest position >= i where sub occurs in s, or -1
FindFrom(s, sub, i) ==
    LET hits == { p \in i..(Len(s) - Len(sub)) : OccursAt(s, sub, p) }
    IN  IF hits = {} THEN -1
        ELSE CHOOSE p \in hits : \A q \in hits : p <= q

\* s.find(sub)
Find(s, sub) == FindFrom(s, sub, 0)

\* the highest position <= i where sub occurs in s, or -1
RFindFrom(s, sub, i) ==
    LET hits == { p \in 0..i : OccursAt(s, sub, p) }
    IN  IF hits = {} THEN -1
        ELSE CHOOSE p \in hits : \A q \in hits : p >= q

\* s.rfind(sub)
RFind(s, sub) == RFindFrom(s, sub, Len(s) - Len(sub))

\* s.replace(old, new, count): the first count non-overlapping occurrences,
\* left to right; count < 0 means all of them
RECURSIVE ReplaceCount(_, _, _, _)
ReplaceCount(s, old, new, count) ==
    IF count = 0 \/ old = <<>> THEN s
    ELSE LET p == Find(s, old)
         IN  IF p < 0 THEN s
             ELSE SubSeq(s, 1, p) \o new \o
                  ReplaceCount(SubSeq(s, p + Len(old) + 1, Len(s)), old, new,
                               count - 1)

\* s.replace(old, new)
Replace(s, old, new) == ReplaceCount(s, old, new, -1)

\* "\t" * n
RECURSIVE Tabs(_)
Tabs(n) == IF n <= 0 THEN <<>> ELSE <<"\t">> \o Tabs(n - 1)

\* f.readlines(): the lines of a text, each with its terminator
RECURSIVE ReadLines(_)
ReadLines(text) ==
    IF text = <<>> THEN <<>>
    ELSE LET p == Find(text, <<"\n">>)
         IN  IF p < 0 THEN <<text>>
             ELSE <<SubSeq(text, 1, p + 1)>> \o
                  ReadLines(SubSeq(text, p + 2, Len(text)))

\* the concatenation of a list of strings
RECURSIVE Join(_)
Join(ls) == IF ls = <<>> THEN <<>> ELSE Head(ls) \o Join(Tail(ls))

\* the number of lines of a text
NumLines(text) == Len(ReadLines(text))

---------------------------------------------------------------------------
(* The program's string constants.                                         *)

str_java_exception ==
    <<"\n","\t","p","r","i","v","a","t","e"," ","c","l","a","s","s"," ","M",
      "u","l","t","i","P","a","t","h","R","u","n","t","i","m","e","E","r",
      "r","o","r"," ","e","x","t","e","n","d","s"," ","R","u","n","t","i",
      "m","e","E","x","c","e","p","t","i","o","n","{","\n"," ","\t","\t",
      "p","u","b","l","i","c"," ","M","u","l","t","i","P","a","t","h","R",
      "u","n","t","i","m","e","E","r","r","o","r","(","S","t","r","i","n",
      "g"," ","e","r","r","o","r",")","{","\n","\t","\t","\t","s","u","p",
      "e","r","(","e","r","r","o","r",")",";","\n","\t","\t","}","\n","\t",
      "\t","p","u","b","l","i","c"," ","M","u","l","t","i","P","a","t","h",
      "R","u","n","t","i","m","e","E","r","r","o","r","(","S","t","r","i",
      "n","g"," ","e","r","r","o","r",",","T","h","r","o","w","a","b","l",
      "e"," ","e",")","{","\n","\t","\t","\t","s","u","p","e","r","(","e",
      "r","r","o","r",",","e",")",";","\n","\t","\t","}","\n","\t","}","\n">>

str_go_literal == <<"l","i","t","e","r","a","l","_">>

S_const == <<"c","o","n","s","t"," ">>
S_quote == <<"\"">>
S_nl == <<"\n">>
S_assign == <<" ","="," ","\"">>
S_this_literal ==
    <<"t","h","i","s"," ","l","i","t","e","r","a","l"," ","\"">>
S_func == <<"f","u","n","c"," ">>
S_funclit == <<"f","u","n","c","(">>
S_if == <<"i","f"," ">>
S_if_bare == <<"i","f">>
S_else == <<"e","l","s","e"," ">>
S_else_bare == <<"e","l","s","e">>
S_slashes == <<"/","/">>
S_open_comment == <<"/","*">>
S_close_comment == <<"*","/">>
S_lbrace == <<"{">>
S_rbrace == <<"}">>
S_package == <<"p","a","c","k","a","g","e">>
S_test == <<"t","e","s","t">>
S_NestedFunc == <<"N","e","s","t","e","d","F","u","n","c">>
S_RuntimeException ==
    <<"R","u","n","t","i","m","e","E","x","c","e","p","t","i","o","n","(">>
S_MultiPathRuntimeError ==
    <<"M","u","l","t","i","P","a","t","h","R","u","n","t","i","m","e","E",
      "r","r","o","r","(">>

\* reduce_level of reduceComplexity
reduce_level == 3

\* "".join(random.sample(str_set, 4)): four distinct digits.  The model
\* draws the sample from these.
NameSuffixes == { <<"0","1","2","3">>, <<"4","5","6","7">> }


---------------------------------------------------------------------------
(* The inputs of main(): the findings and the Go file they point at.       *)

RuleCodes == {"go:S1192", "go:S3776", "go:S1186", "java:S112"}

\* problem["resource"] of every finding
Resource == <<"/","a",".","g","o">>

\* the literals the go:S1192 messages quote
Lit_x == <<"x">>
Lit_y == <<"y">>
Lit_marker == <<"c","o","n","s","t"," ","l","i","t","e","r","a","l","_">>
Literals == {Lit_x, Lit_y, Lit_marker}

\* a go:S1192 message quoting literal L
Message(L) ==
    S_this_literal \o L \o <<"\""," ","3"," ","t","i","m","e","s",".">>

\* the message of the other rules
OtherMessage == <<"m">>

Findings ==
    { [code |-> "go:S1192", resource |-> Resource, message |-> Message(L),
       startLineNumber |-> 1] : L \in Literals }
    \cup
    { [code |-> c, resource |-> Resource, message |-> OtherMessage,
       startLineNumber |-> 1] : c \in RuleCodes \ {"go:S1192"} }

SeqsUpTo(S, n) == UNION { [1..k -> S] : k \in 0..n }

\* lines of the Go files main() runs on
G_x == <<"f","(","\"","x","\"",")","\n">>
G_y == <<"g","(","\"","y","\"",")","\n">>
G_xx == <<"f","(","\"","x","\"",",","\"","x","\"",")","\n">>
G_marker == <<"h","(","\"">> \o Lit_marker \o <<"\"",")","\n">>
G_bare == <<"x"," ",":","="," ","1","\n">>

MainFiles ==
    { Join(<<G_x, G_y>>), Join(<<G_xx, G_y, G_x>>), Join(<<G_marker, G_y>>),
      Join(<<G_bare>>), Join(<<G_y, G_bare>>) }

---------------------------------------------------------------------------
(* The record of a driver call, kept for the properties.                   *)

NoCall ==
    [ driver |-> "none",      \* the driver called
      before |-> <<>>,        \* the file's text when it was called
      ledger |-> 0,           \* the file's ledger delta when it was called
      literal |-> <<>>,       \* solve1192: the literal of the message
      name |-> <<>>,          \* solve1192: the generated constant name
      wrote |-> FALSE,        \* whether the driver wrote the file
      located |-> FALSE,      \* whether findCodes returned
      startLine |-> 0,        \* the finding's startLineNumber
      cand |-> 0,             \* the index handed to findCodes
      start |-> 0,            \* findCodes: start
      line_num |-> 0,         \* findCodes: line_num
      span |-> <<>>,          \* findCodes: codes
      out |-> <<>>,           \* the rewritten span
      rc |-> 0,               \* reduceComplexity's status (0: not called)
      new_lines |-> 0 ]       \* the line delta the rewriter reported

---------------------------------------------------------------------------
(* solve1192: the literal extractor.                                       *)

\* getLiteral(message)
getLiteral(message) ==
    Slice(message, Find(message, S_this_literal) + 14, RFind(message, S_quote))

\* the guard of solve1192: TRUE when the driver returns without writing
Solve1192Skips(text, literal) ==
    LET marker == S_const \o str_go_literal
    IN  \/ Find(text, literal) < 0
        \/ /\ RFind(text, marker) > 0
           /\ RFind(text, marker) < RFind(text, literal)

\* a variant of Solve1192Text that replaces the first quoted occurrence only
Solve1192Text_FirstOnly(text, literal, literal_def) ==
    ReplaceCount(text, S_quote \o literal \o S_quote, literal_def, 1)
        \o S_nl \o S_const \o literal_def \o S_assign \o literal \o S_quote \o S_nl

\* new_codes of solve1192 when the guard passes
Solve1192Text(text, literal, literal_def) ==
    Replace(text, S_quote \o literal \o S_quote, literal_def)
        \o S_nl \o S_const \o literal_def \o S_assign \o literal \o S_quote \o S_nl

\* solve1192(problem) with the random sample suffix
solve1192(problem, suffix) ==
    LET literal     == getLiteral(problem.message)
        literal_def == str_go_literal \o suffix
        skip        == Solve1192Skips(codes, literal)
    IN  /\ codes' = IF skip THEN codes
                    ELSE Solve1192Text(codes, literal, literal_def)
        /\ declared' = IF skip THEN declared ELSE Append(declared, literal)
        /\ last' = [NoCall EXCEPT !.driver = "solve1192", !.before = codes,
                                  !.literal = literal, !.name = literal_def,
                                  !.wrote = ~skip]
        /\ UNCHANGED <<orig, lines_dict>>

---------------------------------------------------------------------------
(* main(): the run loop.                                                   *)

\* a variant of Dispatch that also takes the go:S3776 branch into solve1192
Dispatch_WrongCode(code) ==
    IF code \in {"go:S1192", "go:S3776"} THEN "solve1192" ELSE "none"

\* the driver main() calls for a rule code ("none": the finding is skipped)
Dispatch(code) == IF code = "go:S1192" THEN "solve1192" ELSE "none"

InitMain ==
    /\ codes \in MainFiles
    /\ orig = codes
    /\ lines_dict = << >>
    /\ problems \in SeqsUpTo(Findings, MaxProblems)
    /\ idx = 0
    /\ status = "running"
    /\ calls = << >>
    /\ declared = << >>
    /\ last = NoCall

\* one iteration of the loop on a finding that is dispatched to solve1192
MainSolve1192 ==
    /\ status = "running"
    /\ idx < Len(problems)
    /\ Dispatch(problems[idx + 1].code) = "solve1192"
    /\ \E suffix \in NameSuffixes : solve1192(problems[idx + 1], suffix)
    /\ calls' = Append(calls, <<idx + 1, "solve1192">>)
    /\ idx' = idx + 1
    /\ UNCHANGED <<problems, status>>

\* one iteration of the loop on a finding no branch of main() takes
MainSkip ==
    /\ status = "running"
    /\ idx < Len(problems)
    /\ Dispatch(problems[idx + 1].code) = "none"
    /\ idx' = idx + 1
    /\ last' = NoCall
    /\ UNCHANGED <<codes, orig, lines_dict, problems, status, calls, declared>>

\* the loop is over
MainEnd ==
    /\ status = "running"
    /\ idx = Len(problems)
    /\ status' = "done"
    /\ UNCHANGED <<codes, orig, lines_dict, problems, idx, calls, declared, last>>

NextMain == MainSolve1192 \/ MainSkip \/ MainEnd

Spec == InitMain /\ [][NextMain]_vars

---------------------------------------------------------------------------
(* findCodes: the function-boundary locator.                               *)

\* a variant of ScanBack that stops at the first line (while start > 0)
RECURSIVE ScanBack_StopsAtFirst(_, _)
ScanBack_StopsAtFirst(lines, start) ==
    IF start > 0
    THEN IF Find(At(lines, start), S_func) >= 0 THEN start
         ELSE ScanBack_StopsAtFirst(lines, start - 1)
    ELSE start

\* the backward scan of findCodes: the value of start when the loop ends
RECURSIVE ScanBack(_, _)
ScanBack(lines, start) ==
    IF start >= 0
    THEN IF Find(At(lines, start), S_func) >= 0 THEN start
         ELSE ScanBack(lines, start - 1)
    ELSE start

\* the forward scan of findCodes: the value of pos and of codes when the
\* loop ends
RECURSIVE ScanForward(_, _, _)
ScanForward(lines, pos, text) ==
    IF pos < Len(lines)
    THEN LET more == text \o At(lines, pos)
         IN  IF At(At(lines, pos), 0) = "}" THEN [pos |-> pos, codes |-> more]
             ELSE ScanForward(lines, pos + 1, more)
    ELSE [pos |-> pos, codes |-> text]

\* findCodes(lines, start); raised: an IndexError leaves the function
findCodes(lines, start0) ==
    LET failed == [raised |-> TRUE, start |-> 0, line_num |-> 0, codes |-> <<>>]
    IN  IF start0 >= 0 /\ OutOfRange(lines, start0) THEN failed
        ELSE LET start == ScanBack(lines, start0)
             IN  IF OutOfRange(lines, start) THEN failed
                 ELSE IF Find(At(lines, start), S_rbrace) > 0
                      THEN [raised |-> FALSE, start |-> start, line_num |-> 1,
                            codes |-> At(lines, start)]
                      ELSE LET f == ScanForward(lines, start + 1, At(lines, start))
                           IN  [raised |-> FALSE, start |-> start,
                                line_num |-> f.pos - start + 1, codes |-> f.codes]

---------------------------------------------------------------------------
(* reduceComplexity and findEndIf: the block reducer and its matcher.      *)

\* findEndIf(lines, col, index, end), with codes and if_lines as they stand
RECURSIVE findEndIfLoop(_, _, _, _, _, _)
findEndIfLoop(lines, col, index, end, text, if_lines) ==
    IF index >= end
    THEN [raised |-> FALSE, codes |-> text, if_lines |-> -1]
    ELSE IF OutOfRange(lines, index)
    THEN [raised |-> TRUE, codes |-> text, if_lines |-> 0]
    ELSE LET line == At(lines, index)
         IN  IF /\ Len(line) > col
                /\ At(line, col) = "}"
                /\ Find(line, S_else_bare) < 0
                /\ Find(line, S_slashes) < 0
             THEN [raised |-> FALSE, codes |-> text \o line, if_lines |-> if_lines]
             ELSE findEndIfLoop(lines, col, index + 1, end, text \o line,
                                if_lines + 1)

findEndIf(lines, col, index, end) == findEndIfLoop(lines, col, index, end, <<>>, 1)

\* whether reduceComplexity wraps the block that starts at line index
WrapsAt(lines, index) ==
    LET line == At(lines, index)
    IN  /\ Find(line, S_if) >= reduce_level
        /\ Find(line, S_else) < 0
        /\ Find(line, S_slashes) < 0
        /\ Find(At(lines, index - 1), S_open_comment) < 0

\* a variant of WrapBlock that leaves out the closing delimiter line
WrapBlock_NoClose(col, text) ==
    Tabs(col) \o S_open_comment \o S_nl
        \o Replace(Replace(text, S_open_comment, <<>>), S_close_comment, <<>>)

\* what reduceComplexity emits for a matched block: the opening delimiter
\* line, the block without comment delimiters, the closing delimiter line
WrapBlock(col, text) ==
    Tabs(col) \o S_open_comment \o S_nl
        \o Replace(Replace(text, S_open_comment, <<>>), S_close_comment, <<>>)
        \o Tabs(col) \o S_close_comment \o S_nl

\* the loop of reduceComplexity, with new_code and new_lines as they stand
RECURSIVE reduceLoop(_, _, _, _, _)
reduceLoop(lines, index, end, new_code, new_lines) ==
    IF index >= end
    THEN [raised |-> FALSE, new_code |-> new_code, status |-> 1,
          new_lines |-> new_lines]
    ELSE IF OutOfRange(lines, index)
    THEN [raised |-> TRUE, new_code |-> new_code, status |-> 0, new_lines |-> 0]
    ELSE IF WrapsAt(lines, index)
    THEN LET col    == Find(At(lines, index), S_if)
             opened == new_code \o Tabs(col) \o S_open_comment \o S_nl
             e      == findEndIf(lines, col, index, end)
         IN  IF e.raised
             THEN [raised |-> TRUE, new_code |-> opened, status |-> 0,
                   new_lines |-> 0]
             ELSE IF e.if_lines < 0
             THEN [raised |-> FALSE, new_code |-> opened, status |-> -1,
                   new_lines |-> 0]
             ELSE reduceLoop(lines, index + e.if_lines, end,
                             new_code \o WrapBlock(col, e.codes), new_lines + 2)
    ELSE reduceLoop(lines, index + 1, end, new_code \o At(lines, index), new_lines)

\* reduceComplexity(lines, start, line_num, file_path)
reduceComplexity(lines, start, line_num) ==
    reduceLoop(lines, start, start + line_num, <<>>, 0)

---------------------------------------------------------------------------
(* reduceComplexity_func and findEndFunc: the nested-function extractor.   *)

\* the loop of findEndFunc, with codes and func_lines as they stand
RECURSIVE findEndFuncLoop(_, _, _, _, _, _)
findEndFuncLoop(lines, pos, index, end, text, func_lines) ==
    IF index >= end
    THEN [raised |-> FALSE, codes |-> text, func_lines |-> -1]
    ELSE IF OutOfRange(lines, index)
    THEN [raised |-> TRUE, codes |-> text, func_lines |-> 0]
    ELSE LET line == At(lines, index)
         IN  IF Len(line) > pos /\ At(line, pos) = "}"
             THEN IF OutOfRange(line, pos + 1)
                  THEN [raised |-> TRUE, codes |-> text, func_lines |-> 0]
                  ELSE IF At(line, pos + 1) = ")"
                  THEN [raised |-> FALSE,
                        codes |-> text \o S_rbrace \o S_nl \o S_nl,
                        func_lines |-> func_lines]
                  ELSE findEndFuncLoop(lines, pos, index + 1, end,
                           text \o ReplaceCount(line, Tabs(pos), <<>>, 1),
                           func_lines + 1)
             ELSE findEndFuncLoop(lines, pos, index + 1, end,
                      text \o ReplaceCount(line, Tabs(pos), <<>>, 1),
                      func_lines + 1)

\* findEndFunc(lines, col, start, end, func_name)
findEndFunc(lines, col, start, end, func_name) ==
    LET pos  == RFind(At(lines, start), <<"\t">>) + 1
        head == Replace(Slice(At(lines, start), col, -1), S_funclit,
                        S_func \o func_name \o <<"(">>) \o S_nl
    IN  findEndFuncLoop(lines, pos, start + 1, end, head, 2)

\* the loop of reduceComplexity_func; found counts the nested functions
\* taken so far and names[k] is the random sample of the k-th
RECURSIVE reduceFuncLoop(_, _, _, _, _, _, _, _, _)
reduceFuncLoop(lines, start, index, end, names, found, new_code, add_code, new_lines) ==
    IF index >= end
    THEN \* print(func_lines) raises UnboundLocalError when none was taken
         IF found = 0
         THEN [raised |-> TRUE, new_code |-> new_code, status |-> 0,
               new_lines |-> 0, add_code |-> <<>>]
         ELSE [raised |-> FALSE, new_code |-> new_code, status |-> 1,
               new_lines |-> new_lines, add_code |-> add_code]
    ELSE IF OutOfRange(lines, index)
    THEN [raised |-> TRUE, new_code |-> new_code, status |-> 0,
          new_lines |-> 0, add_code |-> <<>>]
    ELSE LET line == At(lines, index)
             col  == Find(line, S_funclit)
         IN  IF /\ index > start
                /\ col >= 0
                /\ Find(line, S_lbrace) > 0
                /\ Find(line, S_if_bare) < 0
             THEN LET new_func == S_NestedFunc \o names[found + 1]
                      called   == new_code \o Slice(line, 0, col) \o new_func
                                      \o <<")">> \o S_nl
                      f        == findEndFunc(lines, col, index, end, new_func)
                  IN  IF f.raised
                      THEN [raised |-> TRUE, new_code |-> called, status |-> 0,
                            new_lines |-> 0, add_code |-> <<>>]
                      ELSE IF f.func_lines < 0
                      THEN [raised |-> FALSE, new_code |-> called, status |-> -1,
                            new_lines |-> 0, add_code |-> <<>>]
                      ELSE reduceFuncLoop(lines, start, index + f.func_lines, end,
                               names, found + 1, called, add_code \o f.codes,
                               new_lines + 1 - f.func_lines)
             ELSE reduceFuncLoop(lines, start, index + 1, end, names, found,
                                 new_code \o line, add_code, new_lines)

\* reduceComplexity_func(lines, start, line_num, file_path)
reduceComplexity_func(lines, start, line_num, names) ==
    reduceFuncLoop(lines, start, start, start + line_num, names, 0, <<>>, <<>>, 0)

---------------------------------------------------------------------------
(* fillEmpty: the empty-body filler.                                       *)

\* fillEmpty(codes, line_num)
fillEmpty(text, line_num) ==
    IF line_num = 1 \/ line_num = 2
    THEN LET ref == <<" "," ","/","/">> \o
                    Replace(Replace(Replace(text, S_lbrace, <<>>), S_rbrace, <<>>),
                            S_nl, <<>>)
         IN  [codes |-> Replace(text, S_rbrace, S_nl \o ref \o S_nl \o S_rbrace),
              new_lines |-> 2]
    ELSE [codes |-> text, new_lines |-> 0]

---------------------------------------------------------------------------
(* The ledger-driven drivers: solve3776, solve3776_2, solve1186.           *)

\* problem["resource"].replace("/", "", 1)
FilePath(problem) == ReplaceCount(problem.resource, <<"/">>, <<>>, 1)

\* hashlib.md5(file_path).hexdigest(): the key of the file in the ledger.
\* The digest is modelled by the path it is taken of.
FileKey(problem) == FilePath(problem)

\* lines_dict[file_key] if the key is there, else the 0 a driver starts from
Offset(ld, key) == IF key \in DOMAIN ld THEN ld[key] ELSE 0

\* what a driver call did; the fields the call never reached keep these
NoResult ==
    [ raised |-> FALSE,     \* an exception left the driver
      keyed |-> FALSE,      \* the ledger entry of the file was looked up
      wrote |-> FALSE,      \* the file was written
      text |-> <<>>,        \* the text written
      add_lines |-> 0,      \* the delta added to the ledger
      located |-> FALSE,    \* findCodes returned
      cand |-> 0, start |-> 0, line_num |-> 0, span |-> <<>>,
      rc |-> 0,             \* 1/-1: the rewriter's status, 0: not called
      out |-> <<>>,         \* the rewriter's text
      new_lines |-> 0 ]     \* the rewriter's line delta

\* the loop of solve3776 over the lines; r is the result so far
RECURSIVE solve3776Loop(_, _, _, _, _)
solve3776Loop(lines, index, fc, new_codes, r) ==
    IF index >= Len(lines)
    THEN [r EXCEPT !.wrote = TRUE, !.text = new_codes]
    ELSE IF /\ Find(At(lines, index), S_package) >= 0
            /\ Find(At(lines, index), S_test) >= 0
    THEN r
    ELSE IF index = fc.start
    THEN LET t == reduceComplexity(lines, fc.start, fc.line_num)
             u == [r EXCEPT !.rc = t.status, !.out = t.new_code,
                            !.new_lines = t.new_lines]
         IN  IF t.raised THEN [u EXCEPT !.raised = TRUE]
             ELSE IF t.status < 0 THEN u
             ELSE solve3776Loop(lines, fc.start + fc.line_num, fc,
                      new_codes \o t.new_code,
                      [u EXCEPT !.add_lines = r.add_lines + t.new_lines])
    ELSE solve3776Loop(lines, index + 1, fc, new_codes \o At(lines, index), r)

\* solve3776(problem) on the file text and the ledger
solve3776(problem, text, ld) ==
    IF Find(FilePath(problem), S_test) >= 0 THEN NoResult
    ELSE LET lines == ReadLines(text)
             cand  == Offset(ld, FileKey(problem)) + problem.startLineNumber - 1
             fc    == findCodes(lines, cand)
             r     == [NoResult EXCEPT !.keyed = TRUE, !.cand = cand]
         IN  IF fc.raised THEN [r EXCEPT !.raised = TRUE]
             ELSE solve3776Loop(lines, 0, fc, <<>>,
                      [r EXCEPT !.located = TRUE, !.start = fc.start,
                                !.line_num = fc.line_num, !.span = fc.codes])

\* the loop of solve3776_2 over the lines
RECURSIVE solve3776_2Loop(_, _, _, _, _, _, _)
solve3776_2Loop(lines, index, fc, names, new_codes, add_codes, r) ==
    IF index >= Len(lines)
    THEN [r EXCEPT !.wrote = TRUE, !.text = new_codes \o S_nl \o add_codes]
    ELSE IF index = fc.start
    THEN LET t == reduceComplexity_func(lines, fc.start, fc.line_num, names)
             u == [r EXCEPT !.rc = t.status, !.out = t.new_code,
                            !.new_lines = t.new_lines]
         IN  IF t.raised THEN [u EXCEPT !.raised = TRUE]
             ELSE IF t.status < 0 THEN u
             ELSE solve3776_2Loop(lines, fc.start + fc.line_num, fc, names,
                      new_codes \o t.new_code, add_codes \o t.add_code,
                      [u EXCEPT !.add_lines = r.add_lines + t.new_lines])
    ELSE solve3776_2Loop(lines, index + 1, fc, names,
                         new_codes \o At(lines, index), add_codes, r)

\* solve3776_2(problem) on the file text and the ledger
solve3776_2(problem, text, ld, names) ==
    LET lines == ReadLines(text)
        cand  == Offset(ld, FileKey(problem)) + problem.startLineNumber - 1
        fc    == findCodes(lines, cand)
        r     == [NoResult EXCEPT !.keyed = TRUE, !.cand = cand]
    IN  IF fc.raised THEN [r EXCEPT !.raised = TRUE]
        ELSE solve3776_2Loop(lines, 0, fc, names, <<>>, <<>>,
                 [r EXCEPT !.located = TRUE, !.start = fc.start,
                           !.line_num = fc.line_num, !.span = fc.codes])

\* the loop of solve1186 over the lines
RECURSIVE solve1186Loop(_, _, _, _, _)
solve1186Loop(lines, index, fc, new_codes, r) ==
    IF index >= Len(lines)
    THEN [r EXCEPT !.wrote = TRUE, !.text = new_codes]
    ELSE IF index = fc.start
    THEN LET t == fillEmpty(fc.codes, fc.line_num)
         IN  solve1186Loop(lines, fc.start + fc.line_num, fc,
                 new_codes \o t.codes,
                 [r EXCEPT !.rc = 1, !.out = t.codes, !.new_lines = t.new_lines,
                           !.add_lines = r.add_lines + t.new_lines])
    ELSE solve1186Loop(lines, index + 1, fc, new_codes \o At(lines, index), r)

\* solve1186(problem) on the file text and the ledger
solve1186(problem, text, ld) ==
    LET lines == ReadLines(text)
        cand  == Offset(ld, FileKey(problem)) + problem.startLineNumber - 1
        fc    == findCodes(lines, cand)
        r     == [NoResult EXCEPT !.keyed = TRUE, !.cand = cand]
    IN  IF fc.raised THEN [r EXCEPT !.raised = TRUE]
        ELSE solve1186Loop(lines, 0, fc, <<>>,
                 [r EXCEPT !.located = TRUE, !.start = fc.start,
                           !.line_num = fc.line_num, !.span = fc.codes])

---------------------------------------------------------------------------
(* The Go files and findings the ledger-driven drivers are called on.      *)

K_header == <<"f","u","n","c"," ","f","(",")"," ","{","\n">>
K_closer == <<"}","\n">>
\* a nested conditional at column 3, closed at column 3
K_if == <<"\t","\t","\t","i","f"," ","a"," ","{","\n",
          "\t","\t","\t","}","\n">>
\* a nested conditional with an else-if branch that holds a comment
K_ifelse == <<"\t","\t","\t","i","f"," ","b"," ","{","\n",
              "\t","\t","\t","}"," ","e","l","s","e"," ","i","f"," ","c"," ","{",
              " ","/","*","n","*","/","\n",
              "\t","\t","\t","}","\n">>
\* a nested conditional that is not closed at its column
K_open == <<"\t","\t","\t","i","f"," ","c"," ","{","\n">>
\* a one-line function with an empty body and a brace pair in its signature
K_empty_sig == <<"f","u","n","c"," ","h","(","x"," ","s","t","r","u","c","t",
                 "{","}",")"," ","{","}","\n">>
\* a nested function literal, closed
K_nested == <<"\t","g","o","(","f","u","n","c","(",")"," ","{","\n",
              "\t","}",")","\n">>

Chunks == {K_if, K_ifelse, K_open, K_empty_sig, K_nested}

GoFiles ==
    { (IF h THEN K_header ELSE <<>>) \o Join(body) \o (IF c THEN K_closer ELSE <<>>) :
        h \in BOOLEAN, c \in BOOLEAN, body \in SeqsUpTo(Chunks, MaxChunks) }

\* a finding of rule code on line n
Finding(code, n) ==
    [code |-> code, resource |-> Resource, message |-> OtherMessage,
     startLineNumber |-> n]

\* the number of lines of the lines that hold a function literal
FuncLiterals(text) ==
    Len(SelectSeq(ReadLines(text), LAMBDA line : Find(line, S_funclit) >= 0))

---------------------------------------------------------------------------
(* SpecDrivers: the drivers called one after another on one file.          *)

InitDrivers ==
    /\ codes \in GoFiles
    /\ orig = codes
    /\ lines_dict = << >>
    /\ problems = << >>
    /\ idx = 0
    /\ status = "running"
    /\ calls = << >>
    /\ declared = << >>
    /\ last = NoCall

\* the state after a driver call with result r
Driven(driver, problem, r) ==
    /\ codes' = IF r.wrote THEN r.text ELSE codes
    /\ lines_dict' =
          IF r.keyed
          THEN FileKey(problem) :>
                   (Offset(lines_dict, FileKey(problem))
                        + (IF r.wrote THEN r.add_lines ELSE 0))
          ELSE lines_dict
    /\ status' = IF r.raised THEN "crashed" ELSE status
    /\ last' = [NoCall EXCEPT
                   !.driver = driver, !.before = codes,
                   !.ledger = Offset(lines_dict, FileKey(problem)),
                   !.wrote = r.wrote,
                   !.startLine = problem.startLineNumber,
                   !.located = r.located, !.cand = r.cand, !.start = r.start,
                   !.line_num = r.line_num, !.span = r.span, !.out = r.out,
                   !.rc = r.rc, !.new_lines = r.new_lines]
    /\ UNCHANGED <<orig, problems, idx, calls, declared>>

\* the next finding may be handed to a driver
MayDrive == status = "running" /\ NumLines(codes) <= MaxLines

DriveSolve3776 ==
    /\ MayDrive
    /\ \E n \in 1..NumLines(orig) :
       \E r \in {solve3776(Finding("go:S3776", n), codes, lines_dict)} :
          Driven("solve3776", Finding("go:S3776", n), r)

DriveSolve3776_2 ==
    /\ MayDrive
    /\ \E n \in 1..NumLines(orig) :
       \E names \in [1..FuncLiterals(codes) -> NameSuffixes] :
       \E r \in {solve3776_2(Finding("go:S3776", n), codes, lines_dict, names)} :
          Driven("solve3776_2", Finding("go:S3776", n), r)

DriveSolve1186 ==
    /\ MayDrive
    /\ \E n \in 1..NumLines(orig) :
       \E r \in {solve1186(Finding("go:S1186", n), codes, lines_dict)} :
          Driven("solve1186", Finding("go:S1186", n), r)

NextDrivers == DriveSolve3776 \/ DriveSolve3776_2 \/ DriveSolve1186

SpecDrivers == InitDrivers /\ [][NextDrivers]_vars

---------------------------------------------------------------------------
(* solve112: the exception renamer, and SpecJava, which calls it.          *)

\* solve112(problem) on the file text
solve112(text) ==
    IF Find(text, S_RuntimeException) < 0
    THEN [wrote |-> FALSE, text |-> text]
    ELSE LET new_codes == Replace(text, S_RuntimeException, S_MultiPathRuntimeError)
             end_pos   == RFind(new_codes, S_rbrace)
         IN  [wrote |-> TRUE,
              text |-> Slice(new_codes, 0, end_pos) \o str_java_exception
                           \o Slice(new_codes, end_pos, -1)]

J_class == <<"c","l","a","s","s"," ","A"," ","{","\n">>
J_throw == <<"t","h","r","o","w"," ","n","e","w"," ">> \o S_RuntimeException
               \o <<"\"","x","\"",")",";","\n">>
J_field == <<"i","n","t"," ","y",";","\n">>
J_close == <<"}","\n">>
\* a closing brace that ends the file without a line terminator
J_close_eof == <<"}">>

JavaParts == {J_class, J_throw, J_field, J_close}

JavaFiles ==
    { Join(parts) \o tail :
        parts \in SeqsUpTo(JavaParts, MaxJavaParts), tail \in {<<>>, J_close_eof} }

InitJava ==
    /\ codes \in JavaFiles
    /\ orig = codes
    /\ lines_dict = << >>
    /\ problems = << >>
    /\ idx = 0
    /\ status = "running"
    /\ calls = << >>
    /\ declared = << >>
    /\ last = NoCall

DriveSolve112 ==
    /\ status = "running"
    /\ \E r \in {solve112(codes)} :
          /\ codes' = r.text
          /\ last' = [NoCall EXCEPT !.driver = "solve112", !.before = codes,
                                    !.wrote = r.wrote]
    /\ UNCHANGED <<orig, lines_dict, problems, idx, status, calls, declared>>

NextJava == DriveSolve112

SpecJava == InitJava /\ [][NextJava]_vars

---------------------------------------------------------------------------
(* Properties of main() and solve1192, checked under Spec.                 *)

\* the literal of the finding at position i of the list
LiteralOf(i) == getLiteral(problems[i].message)

\* the declarations generated before the last driver call
DeclaredBefore ==
    IF last.driver = "solve1192" /\ last.wrote
    THEN SubSeq(declared, 1, Len(declared) - 1)
    ELSE declared

\* the constant declaration solve1192 appends
Declaration(literal_def, literal) ==
    S_nl \o S_const \o literal_def \o S_assign \o literal \o S_quote \o S_nl

\* new is old with every occurrence of q (left to right, not overlapping)
\* replaced by n and nothing else changed
RECURSIVE EveryReplaced(_, _, _, _)
EveryReplaced(old, new, q, n) ==
    IF old = <<>> THEN new = <<>>
    ELSE IF OccursAt(old, q, 0)
         THEN /\ OccursAt(new, n, 0)
              /\ EveryReplaced(SubSeq(old, Len(q) + 1, Len(old)),
                               SubSeq(new, Len(n) + 1, Len(new)), q, n)
         ELSE /\ new # <<>>
              /\ Head(new) = Head(old)
              /\ EveryReplaced(Tail(old), Tail(new), q, n)

\* the number of occurrences of sub in s, overlapping ones included
Occurrences(s, sub) == Cardinality({ i \in 0..Len(s) : OccursAt(s, sub, i) })

\* C2: a go:S1192 finding for literal L processed right after a go:S1192
\* finding for the same L (so on the output of that run) leaves the file
\* as it was.
C2_SecondRunIsNoOp ==
    ( /\ last.driver = "solve1192"
      /\ idx >= 2
      /\ problems[idx - 1].code = "go:S1192"
      /\ LiteralOf(idx - 1) = last.literal )
    => codes = last.before

\* C3: once a declaration was generated for literal L, a later go:S1192
\* finding for L leaves the file unchanged also when a declaration for
\* another literal was generated in between.
C3_NoSecondExtraction ==
    ( /\ last.driver = "solve1192"
      /\ \E i, j \in 1..Len(DeclaredBefore) :
            /\ i < j
            /\ DeclaredBefore[i] = last.literal
            /\ DeclaredBefore[j] # last.literal )
    => codes = last.before

\* the drivers claim C7 says a rule code is dispatched to
ClaimedDrivers(code) ==
    CASE code = "go:S1192" -> {"solve1192"}
      [] code = "go:S3776" -> {"solve3776", "solve3776_2"}
      [] code = "go:S1186" -> {"solve1186"}
      [] code = "java:S112" -> {"solve112"}
      [] OTHER -> {}

\* C7 as claimed: every processed finding invoked the driver of its rule
\* code exactly once.
C7_EveryCodeDispatched ==
    \A i \in 1..idx :
        Cardinality({ k \in 1..Len(calls) :
                        /\ calls[k][1] = i
                        /\ calls[k][2] \in ClaimedDrivers(problems[i].code) }) = 1

\* the go:S1192 findings among the first n, in input order
LiteralCalls(n) ==
    LET F[k \in 0..n] ==
            IF k = 0 THEN << >>
            ELSE IF problems[k].code = "go:S1192"
                 THEN Append(F[k - 1], <<k, "solve1192">>)
                 ELSE F[k - 1]
    IN  F[n]

\* C7 as amended: the loop takes the findings in input order and invokes
\* solve1192 exactly once for each go:S1192 finding; a finding with any
\* other rule code invokes no driver and leaves the file alone.
C7_OnlyS1192Dispatched ==
    /\ idx \in 0..Len(problems)
    /\ calls = LiteralCalls(idx)
    /\ (idx >= 1 /\ problems[idx].code # "go:S1192") => last.driver = "none"
    /\ (\A i \in 1..Len(problems) : problems[i].code # "go:S1192") => codes = orig

\* C7's case: a finished run over a list with a go:S1192 finding after a
\* go:S3776 one.
C7_Witness ==
    /\ status = "done"
    /\ \E i, j \in 1..Len(problems) :
          /\ i < j
          /\ problems[i].code = "go:S3776"
          /\ problems[j].code = "go:S1192"
    /\ \E c \in {"go:S1186"} : \E i \in 1..Len(problems) : problems[i].code = c
    /\ Len(calls) = 1

\* C8 as claimed: when the guard passes, only the first quoted occurrence
\* is replaced and one declaration is appended.
C8_FirstOccurrenceOnly ==
    (last.driver = "solve1192" /\ last.wrote)
    => codes = ReplaceCount(last.before,
                            S_quote \o last.literal \o S_quote, last.name, 1)
               \o Declaration(last.name, last.literal)

\* C8 as amended: when the guard passes, the written file is the old text
\* with every quoted occurrence of the literal replaced by the generated
\* name and nothing else changed, followed by one declaration of that name.
C8_EveryOccurrence ==
    (last.driver = "solve1192" /\ last.wrote)
    => LET decl == Declaration(last.name, last.literal)
           keep == Len(codes) - Len(decl)
       IN  /\ keep >= 0
           /\ SubSeq(codes, keep + 1, Len(codes)) = decl
           /\ EveryReplaced(last.before, SubSeq(codes, 1, keep),
                            S_quote \o last.literal \o S_quote, last.name)

\* C8's case: the guard passed on a file with several quoted occurrences.
C8_Witness ==
    /\ last.driver = "solve1192"
    /\ last.wrote
    /\ Occurrences(last.before, S_quote \o last.literal \o S_quote) >= 2
    /\ Occurrences(codes, last.name) >= 3

---------------------------------------------------------------------------
(* Properties of the ledger-driven drivers, checked under SpecDrivers.     *)

LedgerDrivers == {"solve3776", "solve3776_2", "solve1186"}

\* the ledger delta of the file now
LedgerNow == Offset(lines_dict, FilePath(Finding("go:S3776", 1)))

\* the lines the last driver call read
LastLines == ReadLines(last.before)

\* findCodes ran to the end of the file without a line that begins with a
\* closing brace
NoClosingLine ==
    /\ last.located
    /\ last.start >= 0
    /\ Find(At(LastLines, last.start), S_rbrace) <= 0
    /\ \A i \in (last.start + 1)..(Len(LastLines) - 1) :
          At(LastLines, i)[1] # "}"

\* C1: the ledger delta of the file is the net number of lines the edits
\* made so far added to it, and the index a driver hands to findCodes is
\* startLineNumber - 1 plus that number.  Stated for one call of solve3776
\* or solve1186 whose span findCodes closed: if the ledger was the net line
\* change before the call, the index handed to findCodes was
\* startLineNumber - 1 plus it, and the ledger is the net line change after
\* the call.
C1_LedgerIsNetLineChange ==
    ( /\ last.driver \in {"solve3776", "solve1186"}
      /\ status = "running"
      /\ last.located
      /\ ~NoClosingLine
      /\ last.ledger = NumLines(last.before) - NumLines(orig) )
    => /\ last.cand = last.startLine - 1 + NumLines(last.before) - NumLines(orig)
       /\ LedgerNow = NumLines(codes) - NumLines(orig)

\* a line of the span qualifies as a nested conditional: "if " at column 3
\* or more, no else variant, no comment line, the line before opens no comment
Qualifies(lines, i) ==
    /\ \E c \in reduce_level..Len(At(lines, i)) :
          /\ OccursAt(At(lines, i), S_if, c)
          /\ \A b \in 0..(c - 1) : ~OccursAt(At(lines, i), S_if, b)
    /\ Occurrences(At(lines, i), S_else) = 0
    /\ Occurrences(At(lines, i), S_slashes) = 0
    /\ Occurrences(At(lines, i - 1), S_open_comment) = 0

\* a line closes a block opened at column c
ClosesAt(line, c) ==
    /\ Len(line) > c
    /\ line[c + 1] = "}"
    /\ Occurrences(line, S_else_bare) = 0
    /\ Occurrences(line, S_slashes) = 0

\* the first line from i on, before end, that closes a block of column c
\* (end when there is none)
BlockEnd(lines, c, i, end) ==
    LET closers == { j \in i..(end - 1) : ClosesAt(At(lines, j), c) }
    IN  IF closers = {} THEN end
        ELSE CHOOSE j \in closers : \A k \in closers : j <= k

\* the number of qualifying blocks of the span [i, end), each taken with
\* the lines up to its closing line
RECURSIVE QualifyingBlocks(_, _, _)
QualifyingBlocks(lines, i, end) ==
    IF i >= end THEN 0
    ELSE IF Qualifies(lines, i)
         THEN 1 + QualifyingBlocks(lines,
                      BlockEnd(lines, Find(At(lines, i), S_if), i, end) + 1, end)
         ELSE QualifyingBlocks(lines, i + 1, end)

\* the number of qualifying blocks of the span of the last call
LastBlocks == QualifyingBlocks(LastLines, last.start, last.start + last.line_num)

\* C4: when reduceComplexity matched every qualifying block of its span,
\* N of them, it returns the span's lines plus 2*N lines and the line
\* delta 2*N (4 for two stacked blocks).
C4_TwoLinesPerBlock ==
    (last.driver = "solve3776" /\ last.rc = 1)
    => /\ last.new_lines = 2 * LastBlocks
       /\ NumLines(last.out) = last.line_num + 2 * LastBlocks
       /\ last.wrote => NumLines(codes) = NumLines(last.before) + 2 * LastBlocks

\* C4's case: two stacked qualifying blocks were wrapped.
C4_Witness ==
    /\ last.driver = "solve3776"
    /\ last.rc = 1
    /\ last.wrote
    /\ LastBlocks = 2
    /\ last.new_lines = 4
    /\ Occurrences(last.out, S_open_comment) = 2
    /\ Occurrences(last.out, S_close_comment) = 2

\* a span of n lines that is a function with an empty body: nothing but
\* blanks between its last opening and its last closing brace
EmptyBodySpan(span, n) ==
    /\ NumLines(span) = n
    /\ Occurrences(span, S_func) = 1
    /\ LET a == RFind(span, S_lbrace)
           b == RFind(span, S_rbrace)
       IN  /\ a >= 0
           /\ b > a
           /\ \A k \in (a + 2)..b : span[k] \in {" ", "\t", "\n"}

\* C5: on a 1-line or 2-line empty-body span fillEmpty returns two lines
\* more than the span and reports a delta of 2.
C5_FillerAddsTwoLines ==
    ( /\ last.driver = "solve1186"
      /\ last.rc = 1
      /\ last.line_num \in {1, 2}
      /\ EmptyBodySpan(last.span, last.line_num) )
    => /\ last.new_lines = 2
       /\ NumLines(last.out) = NumLines(last.span) + 2

\* the matcher reached the end of the span without the closing construct
NoClosingConstruct == last.driver \in LedgerDrivers /\ last.rc = -1

\* C6: when the matcher or the locator finds no terminating construct, the
\* file is not written, the ledger keeps its value and the run goes on.
C6_AbortsOnlyTheFinding ==
    ( /\ last.driver \in LedgerDrivers
      /\ NoClosingLine \/ NoClosingConstruct )
    => /\ status = "running"
       /\ ~last.wrote
       /\ codes = last.before
       /\ LedgerNow = last.ledger

\* no line from the first to the candidate holds the marker "func "
NoFunctionAbove(lines, cand) ==
    /\ cand \in 0..(Len(lines) - 1)
    /\ \A i \in 0..cand : Occurrences(At(lines, i), S_func) = 0

---------------------------------------------------------------------------
(* The property of solve112, checked under SpecJava.                       *)

\* C10: solve112 leaves a file without "RuntimeException(" as it is; else
\* the written file is the old text with every "RuntimeException(" renamed
\* and the wrapper class inserted right before the final closing brace,
\* that brace and every other character kept.
C10_RenameAndInsert ==
    last.driver = "solve112"
    => IF Occurrences(last.before, S_RuntimeException) = 0
       THEN codes = last.before /\ ~last.wrote
       ELSE LET renamed == Replace(last.before, S_RuntimeException,
                                   S_MultiPathRuntimeError)
                brace   == RFind(renamed, S_rbrace)
            IN  brace >= 0
                => codes = SubSeq(renamed, 1, brace) \o str_java_exception
                               \o SubSeq(renamed, brace + 1, Len(renamed))

=============================================================================
